---- MODULE Spec2Model ----
(***************************************************************************)
(* The bootstrap and interactive shell of DeepResearchAgent (main.py):     *)
(* main() runs the initialization pipeline statement by statement and then *)
(* the `while True` loop that reads a task, awaits agent.run and reports.  *)
(*                                                                         *)
(* Environment.  Every call into a collaborator (parse_args, config,       *)
(* logger, model_manager, create_agent, agent.run) either returns or       *)
(* raises.  Formatting a collaborator-supplied object into an f-string     *)
(* (res, e, config.pretty_text) may raise as well.  input() returns a line *)
(* or raises EOFError.  print() of a string the program owns succeeds.     *)
(* Formatting and logging raise subclasses of Exception; agent.run may     *)
(* also raise a BaseException that is no Exception.                        *)
(* A call that never returns is a behaviour that stutters inside the call. *)
(***************************************************************************)
EXTENDS Integers, Sequences, FiniteSets, TLC

\* Number of input() calls that return a line in one session.
MaxInputs == 3

\* Number of key=value expressions after --cfg-options.
MaxOverrides == 3

VARIABLES
    argv,        \* the key=value expressions given after --cfg-options
    args,        \* args.cfg_options as parse_args returned it (line 36)
    config,      \* the configuration init_config resolved (line 39)
    log_path,    \* the log_path init_logger was called with (line 42)
    pc,          \* the statement main() is at
    inCall,      \* TRUE while the collaborator call at pc has not come back
    started,     \* per initialization call: how often it has been entered
    completed,   \* per initialization call: how often it has returned
    agent,       \* the root agent bound at line 51 (<<>> before that)
    stdout,      \* lines written to the interactive surface, oldest first
    log,         \* entries written through the logger, oldest first
    entered,     \* lines input() has returned, oldest first
    task,        \* the local `task` (line 62)
    res,         \* the local `res` (line 75)
    exc,         \* the exception bound to `e` (line 79)
    dispatched,  \* arguments of the calls to agent.run, oldest first
    hist,        \* per call to agent.run: how it ended and what was on the
                 \* surface and in the log when it was made
    inFlight,    \* calls to agent.run that have neither returned nor raised
    exitStatus   \* {} while the process runs, {status} once it has exited

vars == <<argv, args, config, log_path, pc, inCall, started, completed, agent, stdout, log, entered, task,
          res, exc, dispatched, hist, inFlight, exitStatus>>

----------------------------------------------------------------------------
(* Text.  A line is a sequence of one-character strings.                   *)

UpperLetters ==
    <<"A","B","C","D","E","F","G","H","I","J","K","L","M",
      "N","O","P","Q","R","S","T","U","V","W","X","Y","Z">>

LowerLetters ==
    <<"a","b","c","d","e","f","g","h","i","j","k","l","m",
      "n","o","p","q","r","s","t","u","v","w","x","y","z">>

\* Characters str.strip() removes when called without an argument (the ones
\* the lines of this model use).
Whitespace == {" ", "\t", "\n", "\r"}

LowerChar(c) ==
    IF \E i \in 1..Len(UpperLetters) : UpperLetters[i] = c
    THEN LowerLetters[CHOOSE i \in 1..Len(UpperLetters) : UpperLetters[i] = c]
    ELSE c

\* str.lower()
Lower(s) == [i \in 1..Len(s) |-> LowerChar(s[i])]

RECURSIVE LStrip(_)
LStrip(s) ==
    IF s # <<>> /\ Head(s) \in Whitespace THEN LStrip(Tail(s)) ELSE s

RECURSIVE RStrip(_)
RStrip(s) ==
    IF s # <<>> /\ s[Len(s)] \in Whitespace
    THEN RStrip(SubSeq(s, 1, Len(s) - 1))
    ELSE s

\* A task taken as typed, the call to strip() forgotten.
NoStrip(s) == s

\* str.strip()
Strip(s) == RStrip(LStrip(s))

\* ['quit', 'exit', 'q'] (line 64)
QuitTokens == { <<"q","u","i","t">>, <<"e","x","i","t">>, <<"q">> }

\* A test that compares the task as typed, without lower().
IsQuitCaseSensitive(t) == t \in QuitTokens

\* task.lower() in ['quit', 'exit', 'q'] (line 64)
IsQuit(t) == Lower(t) \in QuitTokens

\* not task (line 68)
IsEmpty(t) == t = <<>>

----------------------------------------------------------------------------
(* What the environment can supply.                                        *)

\* Lines the user may type.
Lines ==
    { <<>>,
      <<" ", "\t">>,
      <<"q">>,
      <<" ", "Q", " ">>,
      <<"q","u","i","t">>,
      <<"Q","u","i","t">>,
      <<"E","X","I","T"," ">>,
      <<"b","o","o","m">>,
      <<" ","s","t","a","t","u","s"," ">> }

\* Values agent.run may return.
Results == { <<"4","2">>, <<"o","k">> }

\* Descriptions of the exceptions agent.run may raise.
RunErrors == { <<"b","a","d">> }

\* Description of an exception raised while a value is formatted or logged.
ReportError == <<"r","e","p","o","r","t">>

\* The object create_agent returns.
RootAgent == <<"root">>

\* The exception classes except Exception (line 79) tells apart: a subclass
\* of Exception, or a BaseException that is none (asyncio.CancelledError,
\* SystemExit), which only agent.run is taken to raise.
ExcClasses == { "Exception", "BaseException" }

----------------------------------------------------------------------------
(* Output records.                                                         *)

Out(kind, text) == [kind |-> kind, text |-> text]

Kinds(seq) == [i \in 1..Len(seq) |-> seq[i].kind]

Count(seq, kind) == Cardinality({ i \in 1..Len(seq) : seq[i].kind = kind })

----------------------------------------------------------------------------
(* Process exit statuses.                                                  *)

\* main() returned and asyncio.run came back.
ExitOk == 0

\* An exception left asyncio.run(main()): traceback, status 1.
ExitError == 1

\* argparse rejected the command line: parser.error exits with status 2.
ExitUsage == 2

----------------------------------------------------------------------------
(* The command line and the configuration.                                 *)

CfgKeys == { "log_path", "use_local_proxy" }

CfgValues == { "a", "b" }

\* A key=value expression.
Overrides == CfgKeys \X CfgValues

RECURSIVE SeqsUpTo(_, _)
SeqsUpTo(S, n) ==
    IF n = 0 THEN { <<>> }
    ELSE LET shorter == SeqsUpTo(S, n - 1)
         IN  shorter \cup { Append(q, x) : q \in shorter, x \in S }

\* Every list of at most MaxOverrides expressions.
AllArgv == SeqsUpTo(Overrides, MaxOverrides)

\* The command line the sessions of the interactive loop are started with:
\* one key overridden twice (SpecConfig ranges over every command line).
SampleArgv ==
    { << <<"log_path", "a">>, <<"log_path", "b">> >> }

\* The configuration file as loaded, before any override.
BaseConfig == [k \in CfgKeys |-> "file"]

\* A DictAction that keeps the first value given for a key.
DictActionFirstWins(pairs) ==
    [k \in { pairs[i][1] : i \in 1..Len(pairs) } |->
        pairs[CHOOSE i \in 1..Len(pairs) :
                 /\ pairs[i][1] = k
                 /\ \A j \in 1..Len(pairs) : pairs[j][1] = k => i <= j][2]]

\* mmengine's DictAction (line 23): the expressions are taken left to right
\* and each is stored under its key, options[key] = value.
RECURSIVE DictAction(_)
DictAction(pairs) ==
    IF pairs = <<>> THEN <<>>
    ELSE LET before == DictAction(SubSeq(pairs, 1, Len(pairs) - 1))
             kv == pairs[Len(pairs)]
         IN  [k \in DOMAIN before \cup { kv[1] } |->
                 IF k = kv[1] THEN kv[2] ELSE before[k]]

\* config.init_config(args.config, args): the file is loaded and the
\* overrides are merged into it.
InitConfig(base, options) ==
    [k \in DOMAIN base \cup DOMAIN options |->
        IF k \in DOMAIN options THEN options[k] ELSE base[k]]

\* config.log_path (line 42); an unresolved configuration has none.
LogPathOf(c) == IF "log_path" \in DOMAIN c THEN c["log_path"] ELSE ""

----------------------------------------------------------------------------
(* The initialization pipeline: the calls of lines 36-52 in program order. *)

\* The pipeline with the logger initialized before the configuration.
InitPipelineLoggerFirst ==
    << "parse_args", "init_logger", "init_config", "info_logger_path",
       "info_config", "init_models", "info_models", "create_agent",
       "visualize_agent_tree" >>

\* The pipeline with the model names logged after the agent is built.
InitPipelineModelsLoggedLate ==
    << "parse_args", "init_config", "init_logger", "info_logger_path",
       "info_config", "init_models", "create_agent", "info_models",
       "visualize_agent_tree" >>

InitPipeline ==
    << "parse_args", "init_config", "init_logger", "info_logger_path",
       "info_config", "init_models", "info_models", "create_agent",
       "visualize_agent_tree" >>

Stages == { InitPipeline[i] : i \in 1..Len(InitPipeline) }

StageIndex(s) == CHOOSE i \in 1..Len(InitPipeline) : InitPipeline[i] = s

\* The statement that follows call s when s returns.
NextStage(s) ==
    IF StageIndex(s) < Len(InitPipeline)
    THEN InitPipeline[StageIndex(s) + 1]
    ELSE "banner"

\* A pipeline that logs the configuration as soon as it is resolved, before
\* the logger is initialized.
StageLogEarly(s) ==
    CASE s = "init_config"          -> << Out("config", <<>>) >>
      [] s = "info_logger_path"     -> << Out("logger_path", <<>>) >>
      [] s = "info_models"          -> << Out("models", <<>>) >>
      [] s = "visualize_agent_tree" -> << Out("agent_tree", <<>>) >>
      [] OTHER                      -> << >>

\* What a returning initialization call has written to the log.
StageLog(s) ==
    CASE s = "info_logger_path"     -> << Out("logger_path", <<>>) >>
      [] s = "info_config"          -> << Out("config", <<>>) >>
      [] s = "info_models"          -> << Out("models", <<>>) >>
      [] s = "visualize_agent_tree" -> << Out("agent_tree", <<>>) >>
      [] OTHER                      -> << >>

\* The status the process exits with when call s raises.
StageFailStatus(s) == IF s = "parse_args" THEN ExitUsage ELSE ExitError

\* The state in which main() is entered, the command line drawn from S.
InitWith(S) ==
    /\ argv \in S
    /\ args = <<>>
    /\ config = <<>>
    /\ log_path = ""
    /\ pc = InitPipeline[1]
    /\ inCall = FALSE
    /\ started = [s \in Stages |-> 0]
    /\ completed = [s \in Stages |-> 0]
    /\ agent = <<>>
    /\ stdout = <<>>
    /\ log = <<>>
    /\ entered = <<>>
    /\ task = <<>>
    /\ res = <<>>
    /\ exc = <<>>
    /\ dispatched = <<>>
    /\ hist = <<>>
    /\ inFlight = 0
    /\ exitStatus = {}

Init == InitWith(SampleArgv)

\* main() enters initialization call s.
StageStart(s) ==
    /\ pc = s
    /\ ~inCall
    /\ inCall' = TRUE
    /\ started' = [started EXCEPT ![s] = @ + 1]
    /\ log_path' = IF s = "init_logger" THEN LogPathOf(config) ELSE log_path
    /\ UNCHANGED <<argv, args, config, pc, completed, agent, stdout, log, entered, task, res, exc,
                   dispatched, hist, inFlight, exitStatus>>

\* Initialization call s returns; main() goes on to the next statement.
StageReturn(s) ==
    /\ pc = s
    /\ inCall
    /\ inCall' = FALSE
    /\ completed' = [completed EXCEPT ![s] = @ + 1]
    /\ log' = log \o StageLog(s)
    /\ agent' = IF s = "create_agent" THEN RootAgent ELSE agent
    /\ args' = IF s = "parse_args" THEN DictAction(argv) ELSE args
    /\ config' = IF s = "init_config" THEN InitConfig(BaseConfig, args)
                                      ELSE config
    /\ pc' = NextStage(s)
    /\ UNCHANGED <<argv, log_path, started, stdout, entered, task, res, exc, dispatched, hist,
                   inFlight, exitStatus>>

\* An initialization call whose exception is swallowed: main() goes on.
StageRaiseSwallowed(s) ==
    /\ pc = s
    /\ inCall
    /\ inCall' = FALSE
    /\ pc' = NextStage(s)
    /\ UNCHANGED <<argv, args, config, log_path, started, completed, agent, stdout, log, entered, task, res,
                   exc, dispatched, hist, inFlight, exitStatus>>

\* Initialization call s raises: nothing in main() catches it.
StageRaise(s) ==
    /\ pc = s
    /\ inCall
    /\ inCall' = FALSE
    /\ pc' = "aborted"
    /\ exitStatus' = { StageFailStatus(s) }
    /\ UNCHANGED <<argv, args, config, log_path, started, completed, agent, stdout, log, entered, task, res,
                   exc, dispatched, hist, inFlight>>

\* parse_args prints the usage for -h/--help and exits with status 0.
ParseArgsHelp ==
    /\ pc = "parse_args"
    /\ inCall
    /\ inCall' = FALSE
    /\ pc' = "help"
    /\ exitStatus' = { ExitOk }
    /\ UNCHANGED <<argv, args, config, log_path, started, completed, agent, stdout, log, entered, task, res,
                   exc, dispatched, hist, inFlight>>

\* The banner of lines 55-59.
Banner ==
    /\ pc = "banner"
    /\ stdout' = stdout \o << Out("banner", <<>>) >>
    /\ pc' = "input"
    /\ UNCHANGED <<argv, args, config, log_path, inCall, started, completed, agent, log, entered, task, res,
                   exc, dispatched, hist, inFlight, exitStatus>>

----------------------------------------------------------------------------
(* The interactive loop, lines 61-83.                                      *)

\* except Exception (line 79): the classes the handler catches.
Caught(cls) == cls = "Exception"

\* input("\n> ") writes the prompt before it reads.
Prompted == stdout \o << Out("prompt", <<>>) >>

\* input() raises EOFError (the surface is closed): line 62 is outside the
\* try, so the exception leaves main().
ReadEOF ==
    /\ pc = "input"
    /\ stdout' = Prompted
    /\ pc' = "crashed_input"
    /\ exitStatus' = { ExitError }
    /\ UNCHANGED <<argv, args, config, log_path, inCall, started, completed, agent, log, entered, task, res,
                   exc, dispatched, hist, inFlight>>

\* Lines 62-66: the stripped line is a quit token; farewell, break, and
\* main() returns.
ReadQuit(line) ==
    /\ pc = "input"
    /\ Len(entered) < MaxInputs
    /\ IsQuit(Strip(line))
    /\ entered' = Append(entered, line)
    /\ task' = Strip(line)
    /\ stdout' = Prompted \o << Out("goodbye", <<>>) >>
    /\ pc' = "terminated"
    /\ exitStatus' = { ExitOk }
    /\ UNCHANGED <<argv, args, config, log_path, inCall, started, completed, agent, log, res, exc,
                   dispatched, hist, inFlight>>

\* Lines 62-70: the stripped line is empty; re-prompt.
ReadEmpty(line) ==
    /\ pc = "input"
    /\ Len(entered) < MaxInputs
    /\ ~IsQuit(Strip(line))
    /\ IsEmpty(Strip(line))
    /\ entered' = Append(entered, line)
    /\ task' = Strip(line)
    /\ stdout' = Prompted \o << Out("please_enter", <<>>) >>
    /\ pc' = "input"
    /\ UNCHANGED <<argv, args, config, log_path, inCall, started, completed, agent, log, res, exc,
                   dispatched, hist, inFlight, exitStatus>>

\* A dispatch that schedules agent.run(task) without awaiting it: the loop
\* goes straight back to input().
ReadTaskNoAwait(line) ==
    /\ pc = "input"
    /\ Len(entered) < MaxInputs
    /\ ~IsQuit(Strip(line))
    /\ ~IsEmpty(Strip(line))
    /\ entered' = Append(entered, line)
    /\ task' = Strip(line)
    /\ stdout' = Prompted \o << Out("processing", Strip(line)),
                                Out("rule", <<>>) >>
    /\ dispatched' = Append(dispatched, Strip(line))
    /\ hist' = Append(hist, [run |-> "pending", cls |-> "", val |-> <<>>,
                             faults |-> 0, out0 |-> Len(stdout) + 1,
                             log0 |-> Len(log), agent |-> agent])
    /\ inFlight' = inFlight + 1
    /\ pc' = "input"
    /\ UNCHANGED <<argv, args, config, log_path, inCall, started, completed, agent, log, res, exc,
                   exitStatus>>

\* Lines 62-75: any other line; the framing is printed and agent.run(task)
\* is entered.
ReadTask(line) ==
    /\ pc = "input"
    /\ Len(entered) < MaxInputs
    /\ ~IsQuit(Strip(line))
    /\ ~IsEmpty(Strip(line))
    /\ entered' = Append(entered, line)
    /\ task' = Strip(line)
    /\ stdout' = Prompted \o << Out("processing", Strip(line)),
                                Out("rule", <<>>) >>
    /\ dispatched' = Append(dispatched, Strip(line))
    /\ hist' = Append(hist, [run |-> "pending", cls |-> "", val |-> <<>>,
                             faults |-> 0, out0 |-> Len(stdout) + 1,
                             log0 |-> Len(log), agent |-> agent])
    /\ inFlight' = inFlight + 1
    /\ pc' = "run"
    /\ inCall' = TRUE
    /\ UNCHANGED <<argv, args, config, log_path, started, completed, agent, log, res, exc, exitStatus>>

\* A dispatch under a timeout: the loop gives up on the call and goes back
\* to input() while agent.run has neither returned nor raised.
RunTimeout(r) ==
    /\ pc = "run"
    /\ inCall
    /\ inCall' = FALSE
    /\ stdout' = stdout \o << Out("next_task", <<>>) >>
    /\ pc' = "input"
    /\ UNCHANGED <<argv, args, config, log_path, started, completed, agent,
                   log, entered, task, res, exc, dispatched, hist, inFlight,
                   exitStatus>>

\* Line 75-76: agent.run returns r.
RunReturn(r) ==
    /\ pc = "run"
    /\ inCall
    /\ inCall' = FALSE
    /\ inFlight' = inFlight - 1
    /\ res' = r
    /\ hist' = [hist EXCEPT ![Len(hist)].run = "returned",
                            ![Len(hist)].val = r]
    /\ stdout' = stdout \o << Out("rule", <<>>) >>
    /\ pc' = "print_result"
    /\ UNCHANGED <<argv, args, config, log_path, started, completed, agent, log, entered, task, exc,
                   dispatched, exitStatus>>

\* A handler that swallows the exception without a word (except: pass).
RaiseInTrySilent(cls, d) ==
    /\ inCall' = FALSE
    /\ pc' = "input"
    /\ UNCHANGED <<exc, exitStatus>>

\* An exception of class cls with description d is raised inside the try
\* block: the handler of line 79 takes it, or it leaves main().
RaiseInTry(cls, d) ==
    /\ inCall' = FALSE
    /\ IF Caught(cls)
       THEN /\ exc' = d
            /\ pc' = "print_error"
            /\ UNCHANGED exitStatus
       ELSE /\ pc' = "crashed_try"
            /\ exitStatus' = { ExitError }
            /\ UNCHANGED exc

\* Line 75: agent.run raises.
RunRaise(cls, d) ==
    /\ pc = "run"
    /\ inCall
    /\ inFlight' = inFlight - 1
    /\ hist' = [hist EXCEPT ![Len(hist)].run = "raised",
                            ![Len(hist)].cls = cls,
                            ![Len(hist)].val = d]
    /\ RaiseInTry(cls, d)
    /\ UNCHANGED <<argv, args, config, log_path, started, completed, agent, stdout, log, entered, task, res,
                   dispatched>>

\* Line 77: the result is formatted and printed.
PrintResult ==
    /\ pc = "print_result"
    /\ stdout' = stdout \o << Out("final_result", res) >>
    /\ pc' = "info_result"
    /\ UNCHANGED <<argv, args, config, log_path, inCall, started, completed, agent, log, entered, task, res,
                   exc, dispatched, hist, inFlight, exitStatus>>

\* Line 77: formatting res raises (an Exception: ValueError, UnicodeError).
PrintResultRaise ==
    /\ pc = "print_result"
    /\ RaiseInTry("Exception", ReportError)
    /\ hist' = [hist EXCEPT ![Len(hist)].faults = @ + 1]
    /\ UNCHANGED <<argv, args, config, log_path, started, completed, agent, stdout, log, entered, task, res,
                   dispatched, inFlight>>

\* The result printed but never logged, line 78 forgotten.
InfoResultNoLog ==
    /\ pc = "info_result"
    /\ stdout' = stdout \o << Out("next_task", <<>>) >>
    /\ pc' = "input"
    /\ UNCHANGED <<argv, args, config, log_path, inCall, started, completed, agent, log, entered, task, res,
                   exc, dispatched, hist, inFlight, exitStatus>>

\* Lines 78 and 83: the result is logged, the next-task hint printed.
InfoResult ==
    /\ pc = "info_result"
    /\ log' = log \o << Out("result", res) >>
    /\ stdout' = stdout \o << Out("next_task", <<>>) >>
    /\ pc' = "input"
    /\ UNCHANGED <<argv, args, config, log_path, inCall, started, completed, agent, entered, task, res, exc,
                   dispatched, hist, inFlight, exitStatus>>

\* Line 78: logger.info raises (an Exception: OSError, ValueError).
InfoResultRaise ==
    /\ pc = "info_result"
    /\ RaiseInTry("Exception", ReportError)
    /\ hist' = [hist EXCEPT ![Len(hist)].faults = @ + 1]
    /\ UNCHANGED <<argv, args, config, log_path, started, completed, agent, stdout, log, entered, task, res,
                   dispatched, inFlight>>

\* Line 80: the error line is printed.
PrintError ==
    /\ pc = "print_error"
    /\ stdout' = stdout \o << Out("error", exc) >>
    /\ pc' = "error_log"
    /\ UNCHANGED <<argv, args, config, log_path, inCall, started, completed, agent, log, entered, task, res,
                   exc, dispatched, hist, inFlight, exitStatus>>

\* An error report that dispatches the failed task once more.
LogErrorRetry ==
    /\ pc = "error_log"
    /\ log' = log \o << Out("error", exc) >>
    /\ dispatched' = Append(dispatched, task)
    /\ hist' = Append(hist, [run |-> "pending", cls |-> "", val |-> <<>>,
                             faults |-> 0, out0 |-> Len(stdout) + 1,
                             log0 |-> Len(log) + 1, agent |-> agent])
    /\ inFlight' = inFlight + 1
    /\ pc' = "run"
    /\ inCall' = TRUE
    /\ UNCHANGED <<argv, args, config, log_path, started, completed, agent,
                   stdout, entered, task, res, exc, exitStatus>>

\* An error report that builds a fresh agent tree after a failed task.
LogErrorRebuild ==
    /\ pc = "error_log"
    /\ log' = log \o << Out("error", exc) >>
    /\ stdout' = stdout \o << Out("next_task", <<>>) >>
    /\ agent' = << "root", "rebuilt" >>
    /\ started' = [started EXCEPT !["create_agent"] = @ + 1]
    /\ completed' = [completed EXCEPT !["create_agent"] = @ + 1]
    /\ pc' = "input"
    /\ UNCHANGED <<argv, args, config, log_path, inCall, entered, task, res,
                   exc, dispatched, hist, inFlight, exitStatus>>

\* Lines 81 and 83: the error is logged, the next-task hint printed.
LogError ==
    /\ pc = "error_log"
    /\ log' = log \o << Out("error", exc) >>
    /\ stdout' = stdout \o << Out("next_task", <<>>) >>
    /\ pc' = "input"
    /\ UNCHANGED <<argv, args, config, log_path, inCall, started, completed, agent, entered, task, res, exc,
                   dispatched, hist, inFlight, exitStatus>>

\* Lines 80-81: formatting e or logger.error raises inside the handler;
\* no try encloses the handler, so the exception leaves main().
HandlerRaise ==
    /\ pc \in { "print_error", "error_log" }
    /\ pc' = "crashed_handler"
    /\ exitStatus' = { ExitError }
    /\ hist' = [hist EXCEPT ![Len(hist)].faults = @ + 1]
    /\ UNCHANGED <<argv, args, config, log_path, inCall, started, completed, agent, stdout, log, entered,
                   task, res, exc, dispatched, inFlight>>

----------------------------------------------------------------------------

Next ==
    \/ \E s \in Stages : StageStart(s)
    \/ \E s \in Stages : StageReturn(s)
    \/ \E s \in Stages : StageRaise(s)
    \/ ParseArgsHelp
    \/ Banner
    \/ ReadEOF
    \/ \E line \in Lines : ReadQuit(line)
    \/ \E line \in Lines : ReadEmpty(line)
    \/ \E line \in Lines : ReadTask(line)
    \/ \E r \in Results : RunReturn(r)
    \/ \E cls \in ExcClasses, d \in RunErrors : RunRaise(cls, d)
    \/ PrintResult
    \/ PrintResultRaise
    \/ InfoResult
    \/ InfoResultRaise
    \/ PrintError
    \/ LogError
    \/ HandlerRaise

Spec == Init /\ [][Next]_vars

\* The steps main() takes between the dispatch of a task and the next
\* input(): agent.run comes back, and each report statement is executed.
Progress ==
    \/ \E r \in Results : RunReturn(r)
    \/ \E cls \in ExcClasses, d \in RunErrors : RunRaise(cls, d)
    \/ PrintResult
    \/ PrintResultRaise
    \/ InfoResult
    \/ InfoResultRaise
    \/ PrintError
    \/ LogError
    \/ HandlerRaise

\* The program under the assumption that every call to agent.run comes back
\* and that main(), being sequential, executes its next statement.
FairSpec == Spec /\ WF_vars(Progress)

\* Lines 36-39 alone, started with every command line: parse_args and
\* init_config are entered and return.
InitAllArgv == InitWith(AllArgv)

NextConfig ==
    \/ \E s \in { "parse_args", "init_config" } : StageStart(s)
    \/ \E s \in { "parse_args", "init_config" } : StageReturn(s)

SpecConfig == InitAllArgv /\ [][NextConfig]_vars

----------------------------------------------------------------------------
(* The dispatcher state of section 4.2 that each statement belongs to.     *)

DispatcherState ==
    CASE pc = "input"      -> "AwaitingInput"
      [] pc = "run"        -> "Dispatching"
      [] pc \in { "print_result", "info_result", "print_error", "error_log" }
                           -> "Reporting"
      [] pc = "terminated" -> "Terminated"
      [] OTHER             -> "None"

TypeOK ==
    /\ pc \in Stages \cup { "banner", "input", "run", "print_result",
                            "info_result", "print_error", "error_log",
                            "terminated", "aborted", "crashed_input",
                            "crashed_try", "crashed_handler", "help" }
    /\ inCall \in BOOLEAN
    /\ inFlight \in 0..1
    /\ Len(entered) <= MaxInputs
    /\ exitStatus \in { {}, {ExitOk}, {ExitError}, {ExitUsage} }

----------------------------------------------------------------------------
(* Helpers of the properties.                                              *)

Last(seq) == seq[Len(seq)]

\* Call s has been entered and has not returned.
Unreturned(s) == started[s] > completed[s]

\* The process has exited.
Exited == exitStatus # {}

\* The interactive loop has been entered.
LoopEntered == Count(stdout, "banner") > 0

----------------------------------------------------------------------------
(* C1: in every execution of main() logger.init_logger is never entered    *)
(* before config.init_config has returned, model_manager.init_models never *)
(* before logger.init_logger has returned, and create_agent never before   *)
(* model_manager.init_models has returned.                                 *)
C1_InitOrder ==
    /\ started["init_logger"] > 0 => completed["init_config"] > 0
    /\ started["init_models"] > 0 => completed["init_logger"] > 0
    /\ started["create_agent"] > 0 => completed["init_models"] > 0

\* C1 witness: all four stages have been entered, the last one is running.
C1_Witness ==
    /\ pc = "create_agent"
    /\ inCall
    /\ started["init_config"] > 0
    /\ started["init_logger"] > 0
    /\ started["init_models"] > 0

(* C2: when an initialization call raises, the process exits with a        *)
(* non-zero status, no later initialization call is entered, neither the   *)
(* banner nor the prompt is written, no line is read, agent.run is never   *)
(* called, and the process does nothing more.                              *)
C2_AbortState ==
    pc = "aborted" =>
        /\ Exited
        /\ ExitOk \notin exitStatus
        /\ \E s \in Stages :
              /\ Unreturned(s)
              /\ \A t \in Stages : StageIndex(t) > StageIndex(s) => started[t] = 0
        /\ Count(stdout, "banner") = 0
        /\ Count(stdout, "prompt") = 0
        /\ entered = <<>>
        /\ dispatched = <<>>
        /\ inFlight = 0

C2_InitFailureAborts ==
    /\ []C2_AbortState
    /\ [][ (\E s \in Stages : pc = s /\ inCall /\ completed'[s] = completed[s])
              => pc' \in { "aborted", "help" } ]_vars
    /\ [][ pc = "aborted" => UNCHANGED vars ]_vars

\* C2 witness: create_agent has raised after every earlier call returned.
C2_Witness ==
    /\ pc = "aborted"
    /\ Unreturned("create_agent")
    /\ completed["info_models"] > 0

\* c and d are the same letter, whatever their case.
SameLetter(c, d) ==
    \/ c = d
    \/ \E i \in 1..Len(UpperLetters) :
          \/ c = UpperLetters[i] /\ d = LowerLetters[i]
          \/ c = LowerLetters[i] /\ d = UpperLetters[i]

\* The line is empty or holds whitespace only.
BlankLine(line) == \A i \in 1..Len(line) : line[i] \in Whitespace

\* The text of the line between its surrounding whitespace: from its first
\* to its last character that is not whitespace.
Trimmed(line) ==
    LET solid == { i \in 1..Len(line) : line[i] \notin Whitespace }
    IN  IF solid = {} THEN <<>>
        ELSE SubSeq(line,
                    CHOOSE i \in solid : \A j \in solid : i <= j,
                    CHOOSE i \in solid : \A j \in solid : i >= j)

\* The line is a quit token, in any letter case, between whitespace.
QuitLine(line) ==
    LET text == Trimmed(line)
    IN  \E tok \in QuitTokens :
            /\ Len(text) = Len(tok)
            /\ \A i \in 1..Len(tok) : SameLetter(text[i], tok[i])

\* The tasks among the lines: the trimmed text of every line that is
\* neither blank nor a quit line, in the order of the lines.
RECURSIVE TasksOf(_)
TasksOf(seq) ==
    IF seq = <<>> THEN <<>>
    ELSE (IF BlankLine(Head(seq)) \/ QuitLine(Head(seq))
          THEN <<>>
          ELSE << Trimmed(Head(seq)) >>) \o TasksOf(Tail(seq))

Has(seq, kind, text) ==
    \E k \in 1..Len(seq) : seq[k].kind = kind /\ seq[k].text = text

HasKind(seq, kind) == \E k \in 1..Len(seq) : seq[k].kind = kind

\* What was written to the surface, and to the log, from the dispatch of the
\* i-th task up to the dispatch of the next one.
SegOut(i) ==
    SubSeq(stdout, hist[i].out0,
           IF i < Len(hist) THEN hist[i + 1].out0 - 1 ELSE Len(stdout))

SegLog(i) ==
    SubSeq(log, hist[i].log0 + 1,
           IF i < Len(hist) THEN hist[i + 1].log0 ELSE Len(log))

\* The handling of the i-th task is over: the loop is back at input(), or
\* the process has ended.
TaskOver(i) == i < Len(hist) \/ (pc \notin { "run", "print_result",
                                 "info_result", "print_error", "error_log" })

\* After the i-th task the loop came back to AwaitingInput.
ReturnedToInput(i) ==
    i < Len(hist) \/ pc \in { "input", "terminated", "crashed_input" }

\* A line has just been read.
LineRead == entered' # entered

----------------------------------------------------------------------------
(* C3: when the dispatch of a task raises an exception the loop returns to *)
(* AwaitingInput and the next entered task is read and dispatched,         *)
(* whatever happened to earlier tasks.  Stated for exceptions of class     *)
(* Exception, the ones line 79 names: while such a failure is reported the *)
(* process does not end, and every task line read is dispatched.           *)
C3_ErrorIsolation ==
    /\ [][ ( /\ hist # <<>>
             /\ Last(hist).run = "raised"
             /\ Last(hist).cls = "Exception"
             /\ pc \in { "print_error", "error_log" } )
           => ~Exited' ]_vars
    /\ [][ (LineRead /\ ~BlankLine(Last(entered')) /\ ~QuitLine(Last(entered')))
           => dispatched' = Append(dispatched, Trimmed(Last(entered'))) ]_vars

(* C4: once the loop has been entered the process exits only through the   *)
(* quit path.                                                              *)
C4_ExitOnlyByQuit == (LoopEntered /\ Exited) => pc = "terminated"

(* C5: whenever the line read is a quit token in any letter case between   *)
(* whitespace, the farewell is written, agent.run is not called for the    *)
(* line, the process exits with status 0, and afterwards nothing is        *)
(* prompted, read or dispatched.                                           *)
C5_QuitTerminates ==
    /\ [][ (LineRead /\ QuitLine(Last(entered')))
           => /\ pc' = "terminated"
              /\ exitStatus' = { ExitOk }
              /\ Last(stdout').kind = "goodbye"
              /\ dispatched' = dispatched
              /\ hist' = hist
              /\ inFlight' = 0 ]_vars
    /\ [][ pc = "terminated" => UNCHANGED vars ]_vars

\* C5 witness: "EXIT " typed after a task has been handled ends the session.
C5_Witness ==
    /\ pc = "terminated"
    /\ Last(entered) = <<"E","X","I","T"," ">>
    /\ dispatched # <<>>
    /\ exitStatus = { ExitOk }

(* C6: whenever the line read is empty or whitespace only, the loop stays  *)
(* in AwaitingInput and asks again, agent.run is not called and nothing is *)
(* written to the log.                                                     *)
C6_BlankReprompts ==
    [][ (LineRead /\ BlankLine(Last(entered')))
        => /\ pc' = "input"
           /\ Last(stdout').kind = "please_enter"
           /\ dispatched' = dispatched
           /\ hist' = hist
           /\ inFlight' = inFlight
           /\ log' = log
           /\ ~Exited' ]_vars

\* C6 witness: an empty and a whitespace-only line have been read, and
\* agent.run has not been called.
C6_Witness ==
    /\ pc = "input"
    /\ entered = << <<>>, <<" ", "\t">> >>
    /\ dispatched = <<>>
    /\ Count(stdout, "please_enter") = 2

(* C7: at most one call to agent.run is outstanding, and while one is      *)
(* outstanding no line is read and no further call is made.                *)
C7_OneInFlight ==
    /\ [](inFlight <= 1)
    /\ [][ inFlight > 0 => (entered' = entered /\ dispatched' = dispatched) ]_vars

\* C7 witness: the second task of a session is in flight.
C7_Witness ==
    /\ inFlight = 1
    /\ pc = "run"
    /\ Len(dispatched) = 2

(* C8: tasks are dispatched in the order entered, and each has its outcome *)
(* reported on the surface and in the log before the next is dispatched.   *)
C8_InOrder ==
    /\ dispatched = TasksOf(entered)
    /\ Len(hist) = Len(dispatched)
    /\ \A i \in 1..(Len(hist) - 1) :
          /\ hist[i].run # "pending"
          /\ HasKind(SegOut(i), "final_result") \/ HasKind(SegOut(i), "error")
          /\ HasKind(SegLog(i), "result") \/ HasKind(SegLog(i), "error")

\* C8 witness: two different tasks, the first one failed, the second one
\* in flight.
C8_Witness ==
    /\ pc = "run"
    /\ dispatched = << <<"b","o","o","m">>, <<"s","t","a","t","u","s">> >>
    /\ hist[1].run = "raised"

(* C9: whenever the dispatch of a task raises an exception, it is caught,  *)
(* an error message with its description goes to the surface and to the    *)
(* log, and the loop returns to AwaitingInput.  Stated for exceptions of   *)
(* class Exception.                                                        *)
C9_ErrorReported ==
    \A i \in 1..Len(hist) :
        (hist[i].run = "raised" /\ hist[i].cls = "Exception" /\ TaskOver(i))
        => /\ Has(SegOut(i), "error", hist[i].val)
           /\ Has(SegLog(i), "error", hist[i].val)
           /\ ReturnedToInput(i)

----------------------------------------------------------------------------
\* The four stages that establish the shared state.
SharedStages == { "init_config", "init_logger", "init_models", "create_agent" }

(* C11: configuration, logger, model registry and agent tree are each      *)
(* established once: never more than once, and exactly once in a process   *)
(* that reaches the loop.  No step of the loop re-runs an initialization   *)
(* call or changes the configuration or the root agent, and every call to  *)
(* agent.run, also after a failed task, is made on the agent that          *)
(* create_agent returned, under the configuration init_config resolved.    *)
C11_InitOnceAndFrozen ==
    /\ [](\A s \in Stages : started[s] <= 1 /\ completed[s] <= 1)
    /\ [](LoopEntered =>
            /\ \A s \in SharedStages : started[s] = 1 /\ completed[s] = 1
            /\ agent = RootAgent
            /\ config = InitConfig(BaseConfig, DictAction(argv)))
    /\ [][ LoopEntered =>
            /\ started' = started
            /\ completed' = completed
            /\ agent' = agent
            /\ config' = config
            /\ args' = args
            /\ log_path' = log_path ]_vars
    /\ [](\A i \in 1..Len(hist) : hist[i].agent = RootAgent)

\* C11 witness: a second task is dispatched after the first one failed.
C11_Witness ==
    /\ Len(hist) = 2
    /\ hist[1].run = "raised"
    /\ hist[2].run = "pending"
    /\ hist[2].agent = RootAgent
    /\ argv # <<>>

(* C12: while agent.run has neither returned nor raised, the loop stays in *)
(* Dispatching: no line is read, no task is dispatched, nothing is         *)
(* reported and the process does not terminate; the only steps that leave  *)
(* Dispatching are the return and the raise of agent.run.                  *)
C12_HangBlocks ==
    [][ (pc = "run" /\ inCall /\ Last(hist').run = "pending")
        => /\ pc' = "run"
           /\ inCall'
           /\ entered' = entered
           /\ dispatched' = dispatched
           /\ stdout' = stdout
           /\ log' = log
           /\ exitStatus' = exitStatus ]_vars

\* C12 witness: the third task of a session is outstanding.
C12_Witness ==
    /\ pc = "run"
    /\ inCall
    /\ Len(hist) = 3
    /\ Last(hist).run = "pending"
    /\ DispatcherState = "Dispatching"

----------------------------------------------------------------------------
\* The positions of key k in the override list.
Occurrences(k) == { i \in 1..Len(argv) : argv[i][1] = k }

\* The last position of key k in the override list.
LastOccurrence(k) ==
    CHOOSE i \in Occurrences(k) : \A j \in Occurrences(k) : j <= i

(* C13: for every override list, once the configuration is resolved the    *)
(* value of every key the list names, repeated or not, is the value of the *)
(* key's last occurrence in the list; the other keys keep the value of the *)
(* file.                                                                   *)
C13_LastOverrideWins ==
    completed["init_config"] = 1 =>
        \A k \in CfgKeys :
            IF Occurrences(k) # {}
            THEN config[k] = argv[LastOccurrence(k)][2]
            ELSE config[k] = BaseConfig[k]

\* C13 witness: log_path is given twice with different values, another key
\* in between, and the configuration is resolved.
C13_Witness ==
    /\ completed["init_config"] = 1
    /\ argv = << <<"log_path", "a">>, <<"use_local_proxy", "a">>,
                 <<"log_path", "b">> >>
    /\ config["log_path"] = "b"

----------------------------------------------------------------------------
DispatcherStates == { "AwaitingInput", "Dispatching", "Reporting", "Terminated" }

\* The transitions section 4.2 names.
DispatcherTransitions ==
    { << "AwaitingInput", "Dispatching" >>,
      << "Dispatching", "Reporting" >>,
      << "Reporting", "AwaitingInput" >>,
      << "AwaitingInput", "AwaitingInput" >>,
      << "AwaitingInput", "Terminated" >> }

(* C14: once the loop is entered the dispatcher is always in one of        *)
(* AwaitingInput, Dispatching, Reporting, Terminated; it is in             *)
(* AwaitingInput only after every initialization call has returned; every  *)
(* step either stays inside a state or takes one of the transitions of     *)
(* section 4.2; Terminated has no outgoing transition.                     *)
C14_StateMachine ==
    /\ [](LoopEntered => DispatcherState \in DispatcherStates)
    /\ [](DispatcherState = "AwaitingInput" =>
            \A s \in Stages : completed[s] = 1)
    /\ [][ LoopEntered =>
            \/ DispatcherState' = DispatcherState
            \/ << DispatcherState, DispatcherState' >> \in DispatcherTransitions
         ]_vars
    /\ [][ DispatcherState = "Terminated" => UNCHANGED vars ]_vars

----------------------------------------------------------------------------
\* The log_path the command line and the file resolve to.
ResolvedLogPath ==
    IF Occurrences("log_path") # {}
    THEN argv[LastOccurrence("log_path")][2]
    ELSE BaseConfig["log_path"]

(* C15: main() writes nothing to the logger before init_logger has         *)
(* returned; init_logger is entered only after init_config returned and    *)
(* with the log_path of the resolved configuration; when parse_args,       *)
(* init_config or init_logger fails the log stays empty.                   *)
C15_LogAfterLoggerInit ==
    /\ log # <<>> => completed["init_logger"] = 1
    /\ started["init_logger"] > 0 =>
          /\ completed["init_config"] = 1
          /\ log_path = ResolvedLogPath
    /\ ( /\ pc = "aborted"
         /\ \E s \in { "parse_args", "init_config", "init_logger" } : Unreturned(s) )
       => log = <<>>

\* C15 witness: init_logger, called with the overridden log_path, has failed
\* and nothing has been logged.
C15_Witness ==
    /\ pc = "aborted"
    /\ Unreturned("init_logger")
    /\ log_path = "b"
    /\ log = <<>>

(* C16: in an initialization that succeeds the log holds, in this order    *)
(* and all before the banner and the first prompt, the configuration, the  *)
(* model names and the agent tree; the model names are logged only after   *)
(* init_models returned and before create_agent is entered, the agent tree *)
(* only after create_agent returned.                                       *)
C16_StartupLog ==
    /\ stdout # <<>> =>
          SubSeq(Kinds(log), 1, 4) =
              << "logger_path", "config", "models", "agent_tree" >>
    /\ Count(log, "config") > 0 => completed["init_logger"] = 1
    /\ Count(log, "models") > 0 => completed["init_models"] = 1
    /\ started["create_agent"] > 0 => Count(log, "models") = 1
    /\ Count(log, "agent_tree") > 0 => completed["create_agent"] = 1
    /\ \A k \in { "config", "models", "agent_tree" } : Count(log, k) <= 1

\* C16 witness: the banner and the first prompt are out and the log holds
\* the four startup entries only.
C16_Witness ==
    /\ Count(stdout, "prompt") = 1
    /\ Kinds(log) = << "logger_path", "config", "models", "agent_tree" >>

----------------------------------------------------------------------------
(* C17: when every call to agent.run returns or raises, each dispatched    *)
(* task leads back to AwaitingInput, and a quit line leads to Terminated   *)
(* with exit status 0.                                                     *)
C17_BackToInputAndQuit ==
    /\ [](pc = "run" => <>(pc = "input"))
    /\ []((entered # <<>> /\ QuitLine(Last(entered)))
            => <>(pc = "terminated" /\ exitStatus = { ExitOk }))

----------------------------------------------------------------------------
\* The i-th task was reported as a success, as a failure, on the surface
\* and in the log.
SurfaceSuccess(i) == HasKind(SegOut(i), "final_result")
SurfaceFailure(i) == HasKind(SegOut(i), "error")
LogSuccess(i) == HasKind(SegLog(i), "result")
LogFailure(i) == HasKind(SegLog(i), "error")

(* C18: each dispatched task gets exactly one outcome report on the        *)
(* surface and in the log, a 'Final Result' line with a result entry or an *)
(* 'Error processing task' line with an error entry, never both and never  *)
(* neither.  Stated of the tasks after which the loop is back in           *)
(* AwaitingInput.                                                          *)
C18_ExactlyOneReport ==
    \A i \in 1..Len(hist) :
        ReturnedToInput(i) =>
            /\ SurfaceSuccess(i) # SurfaceFailure(i)
            /\ LogSuccess(i) # LogFailure(i)
            /\ SurfaceSuccess(i) = LogSuccess(i)

\* The lines read so far that are neither blank nor a quit line.
TaskLines ==
    { i \in 1..Len(entered) : ~BlankLine(entered[i]) /\ ~QuitLine(entered[i]) }

\* The calls to agent.run so far are as many as the task lines read, and
\* their arguments are the trimmed task lines in the order they were read.
DispatchedAreTaskLines ==
    /\ Len(dispatched) = Cardinality(TaskLines)
    /\ Len(hist) = Cardinality(TaskLines)
    /\ dispatched = TasksOf(entered)

(* C19: every line read that is neither blank nor a quit line is           *)
(* dispatched exactly once, with its trimmed text as the task: the calls   *)
(* to agent.run are as many as such lines, their arguments are the trimmed *)
(* lines in order, and a call is made only in the step that reads its line *)
(* (no retry after a failure).                                             *)
C19_EachTaskOnce ==
    /\ []DispatchedAreTaskLines
    /\ [][ dispatched' # dispatched =>
             /\ LineRead
             /\ dispatched' = Append(dispatched, Trimmed(Last(entered'))) ]_vars

\* C19 witness: " status " was dispatched as "status" and failed, a blank
\* line followed, and agent.run has been called once.
C19_Witness ==
    /\ pc = "input"
    /\ Len(entered) = 2
    /\ entered[1] = <<" ","s","t","a","t","u","s"," ">>
    /\ BlankLine(entered[2])
    /\ hist[1].run = "raised"
    /\ dispatched = << <<"s","t","a","t","u","s">> >>

====
